---- MODULE Spec2Model ----
(***************************************************************************)
(* Model of the dbt-on-Spark pipeline glue of KonohaDataPlatform:          *)
(*   dag/operators/dbt_spark_operator.py  (DbtSparkConfig, DbtSparkOperator)*)
(*   dag/config/pipeline_config.py        (EnvironmentType, PipelineConfig) *)
(*                                                                         *)
(* Python strings that are inspected character by character (selection     *)
(* expressions, command-line words, pod names, environment values) are     *)
(* sequences of one-character strings.  Dictionary keys, tier names, enum   *)
(* members and cron strings are only ever compared for equality and are    *)
(* TLA+ strings.                                                           *)
(***************************************************************************)
EXTENDS Integers, Sequences, FiniteSets, TLC

VARIABLES
    phase,      \* position in the life of the task object: "start", "config", "task"
    config,     \* the DbtSparkConfig shared by reference by the tasks
    op,         \* the DbtSparkOperator's own fields (the invocation)
    dbt_cmd,    \* value of the last _build_dbt_command call (<<>>: none yet)
    env_vars,   \* value of the last _prepare_environment call (<<>>: none yet)
    pod_name,   \* pod name of the last execute call (<<>>: none yet)
    settings,   \* the PipelineConfig object
    ret,        \* the last PipelineConfig call: function, arguments, receiver, result
    profiles,   \* lines of the last _create_profiles_yaml call (<<>>: none yet)
    init_args,  \* arguments of the DbtSparkRunOperator construction
    dag_tasks,  \* the task objects registered in the DAG, by task id
    task_state, \* orchestrator state of each task of the current DAG run
    try_number, \* attempts made of each task in the current DAG run
    retry_wait, \* minutes left before a task that is up for retry runs again
    started,    \* task ids of the current DAG run in the order of their first start
    builds,     \* how many times the job specification of each task was built
    dag_run,    \* number of DAG runs started
    dag_ctx,    \* the runtime context of the current DAG run
    sh_pc,      \* index of the next step of the execution script (0: shell ended)
    sh_errexit, \* the shell's fail-fast option (set -e)
    sh_exit,    \* exit status of the script (-1: still running)
    sh_elapsed, \* seconds the connectivity poll has been waiting
    sh_trace    \* the commands the script has run, with their exit status

vars ==
    <<phase, config, op, dbt_cmd, env_vars, pod_name, settings, ret, profiles, init_args,
      dag_tasks, task_state, try_number, retry_wait, started, builds, dag_run, dag_ctx,
      sh_pc, sh_errexit, sh_exit, sh_elapsed, sh_trace>>

opVars == <<phase, config, op, dbt_cmd, env_vars, pod_name, profiles, init_args>>
cfgVars == <<settings, ret>>
dagVars == <<dag_tasks, task_state, try_number, retry_wait, started, builds, dag_run, dag_ctx>>
shVars == <<sh_pc, sh_errexit, sh_exit, sh_elapsed, sh_trace>>

(***************************************************************************)
(* Bounds of the model.                                                    *)
(***************************************************************************)
MaxSelectTokens == 2    \* a selection expression is at most this many tokens
MaxVars == 2            \* entries of a vars dictionary
MaxThreads == 12        \* largest thread count tried
MaxElapsed == 31         \* the seconds counted in a connectivity poll
MaxDagRuns == 2         \* DAG runs started

(***************************************************************************)
(* String literals of the sources, as character sequences.                 *)
(***************************************************************************)
Chars ==
    "dbt" :> <<"d", "b", "t">> @@
    "run" :> <<"r", "u", "n">> @@
    "test" :> <<"t", "e", "s", "t">> @@
    "debug" :> <<"d", "e", "b", "u", "g">> @@
    "deps" :> <<"d", "e", "p", "s">> @@
    "docs generate" :> <<"d", "o", "c", "s", " ", "g", "e", "n", "e", "r", "a", "t", "e">> @@
    "seed" :> <<"s", "e", "e", "d">> @@
    "snapshot" :> <<"s", "n", "a", "p", "s", "h", "o", "t">> @@
    "compile" :> <<"c", "o", "m", "p", "i", "l", "e">> @@
    "source freshness" :> <<"s", "o", "u", "r", "c", "e", " ", "f", "r", "e", "s", "h", "n", "e", "s", "s">> @@
    "build" :> <<"b", "u", "i", "l", "d">> @@
    "--target" :> <<"-", "-", "t", "a", "r", "g", "e", "t">> @@
    "--profiles-dir" :> <<"-", "-", "p", "r", "o", "f", "i", "l", "e", "s", "-", "d", "i", "r">> @@
    "--select" :> <<"-", "-", "s", "e", "l", "e", "c", "t">> @@
    "--exclude" :> <<"-", "-", "e", "x", "c", "l", "u", "d", "e">> @@
    "--vars" :> <<"-", "-", "v", "a", "r", "s">> @@
    "--full-refresh" :> <<"-", "-", "f", "u", "l", "l", "-", "r", "e", "f", "r", "e", "s", "h">> @@
    "--threads" :> <<"-", "-", "t", "h", "r", "e", "a", "d", "s">> @@
    "dev" :> <<"d", "e", "v">> @@
    "prod" :> <<"p", "r", "o", "d">> @@
    "/dbt" :> <<"/", "d", "b", "t">> @@
    "/dbt/profiles" :> <<"/", "d", "b", "t", "/", "p", "r", "o", "f", "i", "l", "e", "s">> @@
    "tag:" :> <<"t", "a", "g", ":">> @@
    "unknown" :> <<"u", "n", "k", "n", "o", "w", "n">> @@
    "-" :> <<"-">> @@
    " " :> <<" ">> @@
    "kyuubi-dbt.kyuubi.svc.cluster.local" :> <<"k", "y", "u", "u", "b", "i", "-", "d", "b", "t", ".", "k", "y", "u", "u", "b", "i", ".", "s", "v", "c", ".", "c", "l", "u", "s", "t", "e", "r", ".", "l", "o", "c", "a", "l">> @@
    "default" :> <<"d", "e", "f", "a", "u", "l", "t">> @@
    "airflow" :> <<"a", "i", "r", "f", "l", "o", "w">> @@
    "${HOSTNAME}" :> <<"$", "{", "H", "O", "S", "T", "N", "A", "M", "E", "}">> @@
    "true" :> <<"t", "r", "u", "e">> @@
    "false" :> <<"f", "a", "l", "s", "e">> @@
    "20240101T000000" :> <<"2", "0", "2", "4", "0", "1", "0", "1", "T", "0", "0", "0", "0", "0", "0">> @@
    "20240102T060000" :> <<"2", "0", "2", "4", "0", "1", "0", "2", "T", "0", "6", "0", "0", "0", "0">> @@
    "2024-01-01" :> <<"2", "0", "2", "4", "-", "0", "1", "-", "0", "1">> @@
    "2024-01-02" :> <<"2", "0", "2", "4", "-", "0", "1", "-", "0", "2">> @@
    "2024-01-01T00:00:00+00:00" :> <<"2", "0", "2", "4", "-", "0", "1", "-", "0", "1", "T", "0", "0", ":", "0", "0", ":", "0", "0", "+", "0", "0", ":", "0", "0">> @@
    "2024-01-02T06:00:00+00:00" :> <<"2", "0", "2", "4", "-", "0", "1", "-", "0", "2", "T", "0", "6", ":", "0", "0", ":", "0", "0", "+", "0", "0", ":", "0", "0">> @@
    "scheduled__2024-01-01" :> <<"s", "c", "h", "e", "d", "u", "l", "e", "d", "_", "_", "2", "0", "2", "4", "-", "0", "1", "-", "0", "1">> @@
    "manual__2024-01-02" :> <<"m", "a", "n", "u", "a", "l", "_", "_", "2", "0", "2", "4", "-", "0", "1", "-", "0", "2">> @@
    "dbt_analytics_pipeline_v2" :> <<"d", "b", "t", "_", "a", "n", "a", "l", "y", "t", "i", "c", "s", "_", "p", "i", "p", "e", "l", "i", "n", "e", "_", "v", "2">> @@
    "run_staging_models" :> <<"r", "u", "n", "_", "s", "t", "a", "g", "i", "n", "g", "_", "m", "o", "d", "e", "l", "s">> @@
    "env" :> <<"e", "n", "v">> @@
    "limit" :> <<"l", "i", "m", "i", "t">> @@
    "t" :> <<"t">> @@
    "ag:" :> <<"a", "g", ":">> @@
    "S" :> <<"S">> @@
    "s" :> <<"s">> @@
    "x" :> <<"x">> @@
    "marts" :> <<"m", "a", "r", "t", "s">> @@
    "10g" :> <<"1", "0", "g">> @@
    "staging" :> <<"s", "t", "a", "g", "i", "n", "g">> @@
    "validate_dbt_connection" :> <<"v", "a", "l", "i", "d", "a", "t", "e", "_", "d", "b", "t", "_", "c", "o", "n", "n", "e", "c", "t", "i", "o", "n">> @@
    "install_dbt_deps" :> <<"i", "n", "s", "t", "a", "l", "l", "_", "d", "b", "t", "_", "d", "e", "p", "s">> @@
    "seed_reference_data" :> <<"s", "e", "e", "d", "_", "r", "e", "f", "e", "r", "e", "n", "c", "e", "_", "d", "a", "t", "a">> @@
    "test_staging_models" :> <<"t", "e", "s", "t", "_", "s", "t", "a", "g", "i", "n", "g", "_", "m", "o", "d", "e", "l", "s">> @@
    "run_marts_models" :> <<"r", "u", "n", "_", "m", "a", "r", "t", "s", "_", "m", "o", "d", "e", "l", "s">> @@
    "test_marts_models" :> <<"t", "e", "s", "t", "_", "m", "a", "r", "t", "s", "_", "m", "o", "d", "e", "l", "s">> @@
    "generate_documentation" :> <<"g", "e", "n", "e", "r", "a", "t", "e", "_", "d", "o", "c", "u", "m", "e", "n", "t", "a", "t", "i", "o", "n">> @@
    "spark.kubernetes.executor.podNamePrefix: \"dbt-spark-{{dag_id}}\"" :> <<"s", "p", "a", "r", "k", ".", "k", "u", "b", "e", "r", "n", "e", "t", "e", "s", ".", "e", "x", "e", "c", "u", "t", "o", "r", ".", "p", "o", "d", "N", "a", "m", "e", "P", "r", "e", "f", "i", "x", ":", " ", "\"", "d", "b", "t", "-", "s", "p", "a", "r", "k", "-", "{", "{", "d", "a", "g", "_", "i", "d", "}", "}", "\"">> @@
    "spark.app.name: \"${{dag_id}}-${{task_id}}\"" :> <<"s", "p", "a", "r", "k", ".", "a", "p", "p", ".", "n", "a", "m", "e", ":", " ", "\"", "$", "{", "{", "d", "a", "g", "_", "i", "d", "}", "}", "-", "$", "{", "{", "t", "a", "s", "k", "_", "i", "d", "}", "}", "\"">> @@
    "spark.executor.instances: \"" :> <<"s", "p", "a", "r", "k", ".", "e", "x", "e", "c", "u", "t", "o", "r", ".", "i", "n", "s", "t", "a", "n", "c", "e", "s", ":", " ", "\"">> @@
    ": " :> <<":", " ">> @@
    "analytics:" :> <<"a", "n", "a", "l", "y", "t", "i", "c", "s", ":">> @@
    "  target: " :> <<" ", " ", "t", "a", "r", "g", "e", "t", ":", " ">> @@
    "  outputs:" :> <<" ", " ", "o", "u", "t", "p", "u", "t", "s", ":">> @@
    "    " :> <<" ", " ", " ", " ">> @@
    "      type: spark" :> <<" ", " ", " ", " ", " ", " ", "t", "y", "p", "e", ":", " ", "s", "p", "a", "r", "k">> @@
    "      method: thrift" :> <<" ", " ", " ", " ", " ", " ", "m", "e", "t", "h", "o", "d", ":", " ", "t", "h", "r", "i", "f", "t">> @@
    "      host: " :> <<" ", " ", " ", " ", " ", " ", "h", "o", "s", "t", ":", " ">> @@
    "      port: " :> <<" ", " ", " ", " ", " ", " ", "p", "o", "r", "t", ":", " ">> @@
    "      user: admin" :> <<" ", " ", " ", " ", " ", " ", "u", "s", "e", "r", ":", " ", "a", "d", "m", "i", "n">> @@
    "      schema: " :> <<" ", " ", " ", " ", " ", " ", "s", "c", "h", "e", "m", "a", ":", " ">> @@
    "      connect_retries: 5" :> <<" ", " ", " ", " ", " ", " ", "c", "o", "n", "n", "e", "c", "t", "_", "r", "e", "t", "r", "i", "e", "s", ":", " ", "5">> @@
    "      connect_timeout: 60" :> <<" ", " ", " ", " ", " ", " ", "c", "o", "n", "n", "e", "c", "t", "_", "t", "i", "m", "e", "o", "u", "t", ":", " ", "6", "0">> @@
    "      retry_all: true" :> <<" ", " ", " ", " ", " ", " ", "r", "e", "t", "r", "y", "_", "a", "l", "l", ":", " ", "t", "r", "u", "e">> @@
    "      # Kyuubi session management" :> <<" ", " ", " ", " ", " ", " ", "#", " ", "K", "y", "u", "u", "b", "i", " ", "s", "e", "s", "s", "i", "o", "n", " ", "m", "a", "n", "a", "g", "e", "m", "e", "n", "t">> @@
    "      session_timeout: " :> <<" ", " ", " ", " ", " ", " ", "s", "e", "s", "s", "i", "o", "n", "_", "t", "i", "m", "e", "o", "u", "t", ":", " ">> @@
    "      # Custom pod naming for Spark executors (controlled by Kyuubi pod templates)" :> <<" ", " ", " ", " ", " ", " ", "#", " ", "C", "u", "s", "t", "o", "m", " ", "p", "o", "d", " ", "n", "a", "m", "i", "n", "g", " ", "f", "o", "r", " ", "S", "p", "a", "r", "k", " ", "e", "x", "e", "c", "u", "t", "o", "r", "s", " ", "(", "c", "o", "n", "t", "r", "o", "l", "l", "e", "d", " ", "b", "y", " ", "K", "y", "u", "u", "b", "i", " ", "p", "o", "d", " ", "t", "e", "m", "p", "l", "a", "t", "e", "s", ")">> @@
    "      # Pod names will be: dbt-spark-{{ dag_id }}-{{ model_name }}-exec-{{ id }}" :> <<" ", " ", " ", " ", " ", " ", "#", " ", "P", "o", "d", " ", "n", "a", "m", "e", "s", " ", "w", "i", "l", "l", " ", "b", "e", ":", " ", "d", "b", "t", "-", "s", "p", "a", "r", "k", "-", "{", "{", " ", "d", "a", "g", "_", "i", "d", " ", "}", "}", "-", "{", "{", " ", "m", "o", "d", "e", "l", "_", "n", "a", "m", "e", " ", "}", "}", "-", "e", "x", "e", "c", "-", "{", "{", " ", "i", "d", " ", "}", "}">> @@
    "      spark_config:" :> <<" ", " ", " ", " ", " ", " ", "s", "p", "a", "r", "k", "_", "c", "o", "n", "f", "i", "g", ":">> @@
    "        " :> <<" ", " ", " ", " ", " ", " ", " ", " ">> @@
    "      # Note: Resource configuration managed by Kyuubi pod templates (0.5 CPU, 1GB RAM per pod)" :> <<" ", " ", " ", " ", " ", " ", "#", " ", "N", "o", "t", "e", ":", " ", "R", "e", "s", "o", "u", "r", "c", "e", " ", "c", "o", "n", "f", "i", "g", "u", "r", "a", "t", "i", "o", "n", " ", "m", "a", "n", "a", "g", "e", "d", " ", "b", "y", " ", "K", "y", "u", "u", "b", "i", " ", "p", "o", "d", " ", "t", "e", "m", "p", "l", "a", "t", "e", "s", " ", "(", "0", ".", "5", " ", "C", "P", "U", ",", " ", "1", "G", "B", " ", "R", "A", "M", " ", "p", "e", "r", " ", "p", "o", "d", ")">> @@
    "DBT execution completed successfully!" :> <<"D", "B", "T", " ", "e", "x", "e", "c", "u", "t", "i", "o", "n", " ", "c", "o", "m", "p", "l", "e", "t", "e", "d", " ", "s", "u", "c", "c", "e", "s", "s", "f", "u", "l", "l", "y", "!">> @@
    "orders" :> <<"o", "r", "d", "e", "r", "s">> @@
    "customers" :> <<"c", "u", "s", "t", "o", "m", "e", "r", "s">>

\* str.lower() on the ASCII letters: the table of the upper-case letters.
LowerOf ==
    "A" :> "a" @@ "B" :> "b" @@ "C" :> "c" @@ "D" :> "d" @@ "E" :> "e" @@ "F" :> "f" @@
    "G" :> "g" @@ "H" :> "h" @@ "I" :> "i" @@ "J" :> "j" @@ "K" :> "k" @@ "L" :> "l" @@
    "M" :> "m" @@ "N" :> "n" @@ "O" :> "o" @@ "P" :> "p" @@ "Q" :> "q" @@ "R" :> "r" @@
    "S" :> "s" @@ "T" :> "t" @@ "U" :> "u" @@ "V" :> "v" @@ "W" :> "w" @@ "X" :> "x" @@
    "Y" :> "y" @@ "Z" :> "z"

\* Python None for Optional[str] / Optional[dict] parameters: a value that is
\* no character sequence.
None == <<"<None>">>

\* Python None for Optional[int] parameters.
NoneInt == -1

\* Truth value of an Optional[str] / dict / list in an `if`: None and the
\* empty value are false.
Truthy(s) == s # None /\ s # <<>>

lower_char(c) == IF c \in DOMAIN LowerOf THEN LowerOf[c] ELSE c

\* str.lower()
lower(s) == [i \in 1..Len(s) |-> lower_char(s[i])]

\* str.replace(old, new): left to right, non-overlapping, one pass.
RECURSIVE replace(_, _, _)
replace(s, old, new) ==
    IF Len(s) < Len(old) THEN s
    ELSE IF SubSeq(s, 1, Len(old)) = old
         THEN new \o replace(SubSeq(s, Len(old) + 1, Len(s)), old, new)
         ELSE <<s[1]>> \o replace(Tail(s), old, new)

\* sep.join(list)
RECURSIVE join(_, _)
join(sep, list) ==
    IF list = <<>> THEN <<>>
    ELSE IF Len(list) = 1 THEN list[1]
    ELSE list[1] \o sep \o join(sep, Tail(list))

Digits == <<"0", "1", "2", "3", "4", "5", "6", "7", "8", "9">>

\* str(n) for a non-negative int: its decimal digits.
RECURSIVE str(_)
str(n) == IF n < 10 THEN <<Digits[n + 1]>> ELSE str(n \div 10) \o <<Digits[(n % 10) + 1]>>

\* str(b) for a bool, without .lower()
str_bool_lower_mut(b) == IF b THEN <<"T", "r", "u", "e">> ELSE <<"F", "a", "l", "s", "e">>

\* str(b).lower() for a bool
str_bool_lower(b) == lower(IF b THEN <<"T", "r", "u", "e">> ELSE <<"F", "a", "l", "s", "e">>)

\* dict.update with the arguments swapped: the keys of base win.
dict_update_mut(base, upd) ==
    [k \in (DOMAIN base) \cup (DOMAIN upd) |-> IF k \in DOMAIN base THEN base[k] ELSE upd[k]]

\* dict.update / {**a, **b}: the keys of upd win.
dict_update(base, upd) ==
    [k \in (DOMAIN base) \cup (DOMAIN upd) |-> IF k \in DOMAIN upd THEN upd[k] ELSE base[k]]

EmptyDict == [k \in {} |-> <<>>]

(***************************************************************************)
(* DbtSparkConfig and DbtSparkOperator (dag/operators/dbt_spark_operator.py)*)
(***************************************************************************)

\* The dataclass with its field defaults; extra_env_vars is the passthrough map.
DbtSparkConfig(extra_env_vars) ==
    [dbt_project_dir |-> Chars["/dbt"],
     dbt_profiles_dir |-> Chars["/dbt/profiles"],
     namespace |-> Chars["airflow"],
     spark_host |-> Chars["kyuubi-dbt.kyuubi.svc.cluster.local"],
     spark_port |-> 10009,
     spark_schema |-> Chars["default"],
     kyuubi_session_timeout |-> 300,
     extra_env_vars |-> extra_env_vars]

\* The nine subcommands of the specialised operator classes.
KnownCommands ==
    {Chars["run"], Chars["test"], Chars["debug"], Chars["deps"], Chars["docs generate"],
     Chars["seed"], Chars["snapshot"], Chars["compile"], Chars["source freshness"]}

\* _command_supports_vars without the allow-list test.
_command_supports_vars_mut(self) == TRUE

_command_supports_vars(self) ==
    self.command \in {Chars["run"], Chars["test"], Chars["compile"], Chars["seed"], Chars["snapshot"]}

\* _command_supports_full_refresh with the allow-list of --threads.
_command_supports_full_refresh_mut(self) ==
    self.command \in {Chars["run"], Chars["test"], Chars["compile"], Chars["seed"], Chars["snapshot"]}

_command_supports_full_refresh(self) ==
    self.command \in {Chars["run"], Chars["seed"]}

\* _command_supports_threads with 'snapshot' missing and 'debug' added.
_command_supports_threads_mut(self) ==
    self.command \in {Chars["run"], Chars["test"], Chars["compile"], Chars["seed"], Chars["debug"]}

_command_supports_threads(self) ==
    self.command \in {Chars["run"], Chars["test"], Chars["compile"], Chars["seed"], Chars["snapshot"]}

\* ' '.join(f'{k}:{v}' for k, v in self.vars.items()) inside braces.  A dict is
\* the sequence of its <<key, value>> items in insertion order.
vars_str(self) ==
    <<"{">> \o join(<<" ">>, [i \in 1..Len(self.vars) |->
                                self.vars[i][1] \o <<":">> \o str(self.vars[i][2])]) \o <<"}">>

\* _build_dbt_command with --exclude appended before --select.
_build_dbt_command_mut(self, cfg) ==
    LET cmd0 == <<Chars["dbt"], self.command>>
        cmd1 == cmd0 \o <<Chars["--target"], self.target>>
        cmd2 == cmd1 \o <<Chars["--profiles-dir"], cfg.dbt_profiles_dir>>
        cmd3 == IF Truthy(self.exclude) THEN cmd2 \o <<Chars["--exclude"], self.exclude>> ELSE cmd2
        cmd4 == IF Truthy(self.select) THEN cmd3 \o <<Chars["--select"], self.select>> ELSE cmd3
        cmd5 == IF Truthy(self.vars) /\ _command_supports_vars(self)
                THEN cmd4 \o <<Chars["--vars"], vars_str(self)>> ELSE cmd4
        cmd6 == IF self.full_refresh /\ _command_supports_full_refresh(self)
                THEN Append(cmd5, Chars["--full-refresh"]) ELSE cmd5
        cmd7 == IF _command_supports_threads(self)
                THEN cmd6 \o <<Chars["--threads"], str(self.threads)>> ELSE cmd6
    IN  cmd7

_build_dbt_command(self, cfg) ==
    LET cmd0 == <<Chars["dbt"], self.command>>
        cmd1 == cmd0 \o <<Chars["--target"], self.target>>
        cmd2 == cmd1 \o <<Chars["--profiles-dir"], cfg.dbt_profiles_dir>>
        cmd3 == IF Truthy(self.select) THEN cmd2 \o <<Chars["--select"], self.select>> ELSE cmd2
        cmd4 == IF Truthy(self.exclude) THEN cmd3 \o <<Chars["--exclude"], self.exclude>> ELSE cmd3
        cmd5 == IF Truthy(self.vars) /\ _command_supports_vars(self)
                THEN cmd4 \o <<Chars["--vars"], vars_str(self)>> ELSE cmd4
        cmd6 == IF self.full_refresh /\ _command_supports_full_refresh(self)
                THEN Append(cmd5, Chars["--full-refresh"]) ELSE cmd5
        cmd7 == IF _command_supports_threads(self)
                THEN cmd6 \o <<Chars["--threads"], str(self.threads)>> ELSE cmd6
    IN  cmd7

\* `or ''` on an Optional[str]
or_empty(s) == IF Truthy(s) THEN s ELSE <<>>

_prepare_environment(self, cfg, context) ==
    LET base_env ==
          [DBT_PROJECT_DIR |-> cfg.dbt_project_dir,
           DBT_PROFILES_DIR |-> cfg.dbt_profiles_dir,
           DBT_TARGET |-> self.target,
           AIRFLOW_TASK_ID |-> self.task_id,
           AIRFLOW_DAG_ID |-> context.dag_id,
           AIRFLOW_RUN_ID |-> context.run_id,
           AIRFLOW_EXECUTION_DATE |-> context.ds,
           AIRFLOW_LOGICAL_DATE |-> context.logical_date_iso,
           KYUUBI_HOST |-> cfg.spark_host,
           KYUUBI_PORT |-> str(cfg.spark_port),
           KYUUBI_SCHEMA |-> cfg.spark_schema,
           DBT_COMMAND |-> self.command,
           DBT_SELECT |-> or_empty(self.select),
           DBT_EXCLUDE |-> or_empty(self.exclude),
           DBT_FULL_REFRESH |-> str_bool_lower(self.full_refresh),
           DBT_THREADS |-> str(self.threads),
           K8S_NAMESPACE |-> cfg.namespace,
           K8S_POD_NAME |-> Chars["${HOSTNAME}"]]
    IN  dict_update(base_env, cfg.extra_env_vars)

\* The model-name part of the pod name in execute.  No class of the module
\* sets a `models` attribute, so hasattr(self, 'models') is false and the
\* elif branch is never taken.
model_name(self) ==
    IF Truthy(self.select)
    THEN replace(replace(self.select, Chars["tag:"], <<>>), <<" ">>, <<"-">>)
    ELSE Chars["unknown"]

\* pod_name = f"dbt-{model_name}-{context['ts_nodash'].lower()}"
build_pod_name(self, context) ==
    Chars["dbt"] \o <<"-">> \o model_name(self) \o <<"-">> \o lower(context.ts_nodash)

\* Truth value of an Optional[int] in an `if`: None and 0 are false.
IntTruthy(n) == n # NoneInt /\ n # 0

\* str.find(sep) from position k on: the index of the first occurrence, 0 if none.
find(s, sep, k) ==
    LET hits == {i \in k..(Len(s) - Len(sep) + 1) : \A j \in 1..Len(sep) : s[i + j - 1] = sep[j]}
    IN  IF hits = {} THEN 0 ELSE CHOOSE i \in hits : \A m \in hits : i <= m

\* conf.split(': ', 1): the text before and after the first occurrence of sep.
split_once(s, sep) ==
    LET i == find(s, sep, 1)
    IN  <<SubSeq(s, 1, i - 1), SubSeq(s, i + Len(sep), Len(s))>>

\* The list spark_config_lines of _create_profiles_yaml.
spark_config_lines(self) ==
    <<Chars["spark.kubernetes.executor.podNamePrefix: \"dbt-spark-{{dag_id}}\""],
      Chars["spark.app.name: \"${{dag_id}}-${{task_id}}\""]>>
    \o (IF IntTruthy(self.num_executors)
        THEN <<Chars["spark.executor.instances: \""] \o str(self.num_executors) \o <<"\"">>>>
        ELSE <<>>)

\* f'"{key}": {value}' for key, value in [conf.split(': ', 1)]
render_conf(conf) ==
    LET kv == split_once(conf, Chars[": "])
    IN  <<"\"">> \o kv[1] \o <<"\"">> \o Chars[": "] \o kv[2]

\* The profiles.yml text as the sequence of its lines (the text split at its
\* newlines; it starts and ends with a newline).
_create_profiles_yaml(self, cfg) ==
    LET confs == spark_config_lines(self)
    IN  <<<<>>,
          Chars["analytics:"],
          Chars["  target: "] \o self.target,
          Chars["  outputs:"],
          Chars["    "] \o self.target \o <<":">>,
          Chars["      type: spark"],
          Chars["      method: thrift"],
          Chars["      host: "] \o cfg.spark_host,
          Chars["      port: "] \o str(cfg.spark_port),
          Chars["      user: admin"],
          Chars["      schema: "] \o cfg.spark_schema,
          Chars["      connect_retries: 5"],
          Chars["      connect_timeout: 60"],
          Chars["      retry_all: true"],
          Chars["      # Kyuubi session management"],
          Chars["      session_timeout: "] \o str(cfg.kyuubi_session_timeout),
          Chars["      # Custom pod naming for Spark executors (controlled by Kyuubi pod templates)"],
          Chars["      # Pod names will be: dbt-spark-{{ dag_id }}-{{ model_name }}-exec-{{ id }}"],
          Chars["      spark_config:"]>>
        \o [i \in 1..Len(confs) |-> Chars["        "] \o render_conf(confs[i])]
        \o <<Chars["      # Note: Resource configuration managed by Kyuubi pod templates (0.5 CPU, 1GB RAM per pod)"],
             <<>>>>

\* The `timeout 30s` of the connectivity poll, in seconds.
PollTimeout == 30

\* The execution script as the sequence of its commands.  The text of the
\* progress messages is left out, except the completion marker.
execution_script(cmd, profiles_content) ==
    LET echo == [cmd |-> "echo", arg |-> <<>>]
    IN  <<[cmd |-> "set -e", arg |-> <<>>]>>
        \o [i \in 1..11 |-> echo]
        \o <<echo,
             [cmd |-> "mkdir -p", arg |-> <<>>],
             [cmd |-> "cat >", arg |-> profiles_content],
             echo,
             echo,
             [cmd |-> "timeout", arg |-> <<str(PollTimeout)>>],
             echo,
             echo,
             [cmd |-> "cd", arg |-> <<>>],
             echo,
             [cmd |-> "dbt --version", arg |-> <<>>],
             echo,
             echo,
             [cmd |-> "dbt", arg |-> <<join(<<" ">>, cmd)>>],
             [cmd |-> "echo", arg |-> <<Chars["DBT execution completed successfully!"]>>],
             echo>>

\* execute with the environment assembled in place in the shared passthrough map.
execute_mut(self, cfg, context) ==
    LET cmd == _build_dbt_command(self, cfg)
        profiles_content == _create_profiles_yaml(self, cfg)
        env == _prepare_environment(self, cfg, context)
    IN  [dbt_cmd |-> cmd,
         profiles |-> profiles_content,
         script |-> execution_script(cmd, profiles_content),
         env_vars |-> env,
         pod_name |-> build_pod_name(self, context),
         self |-> self,
         config |-> [cfg EXCEPT !.extra_env_vars = env]]

\* DbtSparkOperator.execute: what it builds for the pod, and the task object
\* and the shared config as the call leaves them (it assigns to neither).
execute(self, cfg, context) ==
    LET cmd == _build_dbt_command(self, cfg)
        profiles_content == _create_profiles_yaml(self, cfg)
    IN  [dbt_cmd |-> cmd,
         profiles |-> profiles_content,
         script |-> execution_script(cmd, profiles_content),
         env_vars |-> _prepare_environment(self, cfg, context),
         pod_name |-> build_pod_name(self, context),
         self |-> self,
         config |-> cfg]

\* DbtSparkOperator.__init__: stores its arguments; `vars or {}`.  The
\* subcommand is stored as given, whatever its value.
DbtSparkOperator(task_id, command, select, exclude, vars_arg, target, full_refresh, threads, num_executors) ==
    [task_id |-> task_id,
     command |-> command,
     select |-> select,
     exclude |-> exclude,
     vars |-> IF Truthy(vars_arg) THEN vars_arg ELSE <<>>,
     target |-> target,
     full_refresh |-> full_refresh,
     threads |-> threads,
     num_executors |-> num_executors]

\* The fields before __init__ has run.
NoTask ==
    [task_id |-> None, command |-> None, select |-> None, exclude |-> None, vars |-> <<>>,
     target |-> None, full_refresh |-> FALSE, threads |-> 0, num_executors |-> NoneInt]

\* The `models` argument of DbtSparkRunOperator: None, a str or a list of str.
NoModels == [kind |-> "none", str |-> <<>>, list |-> <<>>]
StrModels(s) == [kind |-> "str", str |-> s, list |-> <<>>]
ListModels(l) == [kind |-> "list", str |-> <<>>, list |-> l]

\* Truth value of `models`: None, '' and [] are false.
ModelsTruthy(models) ==
    \/ models.kind = "str" /\ models.str # <<>>
    \/ models.kind = "list" /\ models.list # <<>>

\* DbtSparkRunOperator.__init__ with kwargs.setdefault('select', ...): an
\* explicitly passed select is kept.
DbtSparkRunOperator_mut(task_id, models, select, exclude, vars_arg, target, full_refresh, threads, num_executors) ==
    DbtSparkOperator(task_id, Chars["run"],
                     IF ModelsTruthy(models) /\ select = None
                     THEN IF models.kind = "list" THEN join(<<" ">>, models.list) ELSE models.str
                     ELSE select,
                     exclude, vars_arg, target, full_refresh, threads, num_executors)

\* DbtSparkRunOperator.__init__: kwargs['select'] is overwritten when models is
\* given, then DbtSparkOperator.__init__ runs with command='run'.
DbtSparkRunOperator(task_id, models, select, exclude, vars_arg, target, full_refresh, threads, num_executors) ==
    DbtSparkOperator(task_id, Chars["run"],
                     IF ModelsTruthy(models)
                     THEN IF models.kind = "list" THEN join(<<" ">>, models.list) ELSE models.str
                     ELSE select,
                     exclude, vars_arg, target, full_refresh, threads, num_executors)

\* No DbtSparkRunOperator constructed.
NoArgs == [models |-> NoModels, select |-> None]

(***************************************************************************)
(* Inputs.                                                                 *)
(***************************************************************************)
Commands == KnownCommands \cup {Chars["build"]}

SelectTokens == {Chars["tag:"], Chars["staging"], <<" ", "S">>}

RECURSIVE TokenStrings(_)
TokenStrings(n) ==
    IF n = 0 THEN {<<>>}
    ELSE LET prev == TokenStrings(n - 1)
         IN  prev \cup {p \o t : p \in prev, t \in SelectTokens}

SelectChoices == {None} \cup TokenStrings(MaxSelectTokens)

ExcludeChoices == {None, Chars["marts"]}

VarKeys == {Chars["env"], Chars["limit"]}
VarValues == {7}

VarsChoices ==
    {None} \cup
    {d \in UNION {[1..n -> VarKeys \X VarValues] : n \in 0..MaxVars} :
        \A i, j \in 1..Len(d) : i # j => d[i][1] # d[j][1]}

Targets == {Chars["dev"], Chars["prod"]}

ThreadCounts == {1, MaxThreads}

ExecutorCounts == {NoneInt, 2}

ExtraEnvChoices ==
    {EmptyDict,
     [DBT_TARGET |-> Chars["prod"], K8S_NAMESPACE |-> Chars["default"],
      SPARK_DRIVER_MEMORY |-> Chars["10g"]]}

Contexts ==
    {[dag_id |-> Chars["dbt_analytics_pipeline_v2"], run_id |-> Chars["scheduled__2024-01-01"],
      ds |-> Chars["2024-01-01"], logical_date_iso |-> Chars["2024-01-01T00:00:00+00:00"],
      ts_nodash |-> Chars["20240101T000000"]],
     [dag_id |-> Chars["dbt_analytics_pipeline_v2"], run_id |-> Chars["manual__2024-01-02"],
      ds |-> Chars["2024-01-02"], logical_date_iso |-> Chars["2024-01-02T06:00:00+00:00"],
      ts_nodash |-> Chars["20240102T060000"]]}

\* No DAG run yet: no runtime context.
NoContext ==
    [dag_id |-> None, run_id |-> None, ds |-> None, logical_date_iso |-> None, ts_nodash |-> None]

\* Arguments of DbtSparkRunOperator.
ModelsChoices ==
    {NoModels, StrModels(<<>>), StrModels(Chars["orders"]), StrModels(Chars["unknown"]),
     ListModels(<<>>), ListModels(<<Chars["orders"], Chars["customers"]>>)}

RunSelectChoices ==
    {None, <<>>, Chars["unknown"], Chars["tag:"] \o Chars["staging"],
     Chars["staging"] \o <<" ">> \o Chars["marts"]}

RunExecutorCounts == {NoneInt, 0, 2}

(***************************************************************************)
(* Operations on the task object.                                          *)
(***************************************************************************)

\* task = DbtSparkOperator(task_id=..., command=..., ..., config=dbt_spark_config)
OperatorInit ==
    /\ phase = "config"
    /\ \E command \in Commands, select \in SelectChoices, exclude \in ExcludeChoices,
          vars_arg \in VarsChoices, target \in Targets, full_refresh \in BOOLEAN,
          threads \in ThreadCounts, num_executors \in ExecutorCounts :
          op' = DbtSparkOperator(Chars["run_staging_models"], command, select, exclude,
                                 vars_arg, target, full_refresh, threads, num_executors)
    /\ phase' = "task"
    /\ init_args' = NoArgs
    /\ UNCHANGED <<config, dbt_cmd, env_vars, pod_name, profiles, cfgVars, dagVars, shVars>>

\* task = DbtSparkRunOperator(task_id=..., models=..., select=..., ...,
\* config=config)
RunOperatorInit ==
    /\ phase = "config"
    /\ \E models \in ModelsChoices, select \in RunSelectChoices, target \in Targets,
          num_executors \in RunExecutorCounts :
          /\ op' = DbtSparkRunOperator(Chars["run_staging_models"], models, select, None, None,
                                       target, FALSE, 1, num_executors)
          /\ init_args' = [models |-> models, select |-> select]
    /\ phase' = "task"
    /\ UNCHANGED <<config, dbt_cmd, env_vars, pod_name, profiles, cfgVars, dagVars, shVars>>

\* task._create_profiles_yaml()
CreateProfilesYaml ==
    /\ phase = "task"
    /\ profiles' = _create_profiles_yaml(op, config)
    /\ dbt_cmd' = <<>>
    /\ env_vars' = <<>>
    /\ pod_name' = <<>>
    /\ UNCHANGED <<phase, config, op, init_args, cfgVars, dagVars, shVars>>

\* task._build_dbt_command()
BuildDbtCommand ==
    /\ phase = "task"
    /\ dbt_cmd' = _build_dbt_command(op, config)
    /\ env_vars' = <<>>
    /\ pod_name' = <<>>
    /\ profiles' = <<>>
    /\ UNCHANGED <<phase, config, op, init_args, cfgVars, dagVars, shVars>>

\* task._prepare_environment(context)
PrepareEnvironment ==
    /\ phase = "task"
    /\ \E context \in Contexts : env_vars' = _prepare_environment(op, config, context)
    /\ dbt_cmd' = <<>>
    /\ pod_name' = <<>>
    /\ profiles' = <<>>
    /\ UNCHANGED <<phase, config, op, init_args, cfgVars, dagVars, shVars>>

\* task.execute(context): builds the command, the environment and the pod
\* name, then hands them to KubernetesPodOperator.
Execute ==
    /\ phase = "task"
    /\ \E context \in Contexts :
          \E r \in {execute(op, config, context)} :
              /\ dbt_cmd' = r.dbt_cmd
              /\ profiles' = r.profiles
              /\ env_vars' = r.env_vars
              /\ pod_name' = r.pod_name
              /\ op' = r.self
              /\ config' = r.config
    /\ UNCHANGED <<phase, init_args, cfgVars, dagVars, shVars>>

(***************************************************************************)
(* EnvironmentType and PipelineConfig (dag/config/pipeline_config.py)      *)
(***************************************************************************)

\* class EnvironmentType(Enum): member name -> value
EnvironmentType == [DEVELOPMENT |-> "dev", STAGING |-> "staging", PRODUCTION |-> "prod"]

\* Python None for Optional[str] arguments, unset environment variables and
\* the "manual trigger only" schedule.
NoneStr == "<None>"

\* EnvironmentType(env_str): lookup of a member by value; ValueError when no
\* member has the value.
EnvironmentType_call(env_str) ==
    IF \E m \in DOMAIN EnvironmentType : EnvironmentType[m] = env_str
    THEN [raised |-> FALSE,
          value |-> CHOOSE m \in DOMAIN EnvironmentType : EnvironmentType[m] = env_str]
    ELSE [raised |-> TRUE, value |-> NoneStr]

\* The dataclass: the fields the accessors read, with the defaults of the
\* fields not given.
PipelineConfig(environment, dbt_target, cpu_request, cpu_limit, memory_request, memory_limit) ==
    [environment |-> environment,
     dbt_target |-> dbt_target,
     default_cpu_request |-> cpu_request,
     default_cpu_limit |-> cpu_limit,
     default_memory_request |-> memory_request,
     default_memory_limit |-> memory_limit,
     dbt_vars |-> EmptyDict,
     warehouse_base_path |-> "s3a://warehouse"]

\* PipelineConfig(): every field at its default
DefaultPipelineConfig == PipelineConfig("DEVELOPMENT", "dev", "250m", "1000m", "512Mi", "2Gi")

\* from_environment without the except clause: the ValueError propagates.
from_environment_mut(env_override, platform_env) ==
    LET env_str == IF env_override # NoneStr /\ env_override # ""
                   THEN env_override
                   ELSE IF platform_env = NoneStr THEN "dev" ELSE platform_env
        looked == EnvironmentType_call(env_str)
    IN  IF looked.raised
        THEN [raised |-> TRUE, value |-> NoneStr]
        ELSE [raised |-> FALSE,
              value |-> PipelineConfig(looked.value, EnvironmentType[looked.value],
                                       "250m", "1000m", "512Mi", "2Gi")]

\* PipelineConfig.from_environment(env_override) with DATA_PLATFORM_ENV set to
\* platform_env (NoneStr: unset).  The ValueError of the enum lookup is caught.
from_environment(env_override, platform_env) ==
    LET env_str == IF env_override # NoneStr /\ env_override # ""
                   THEN env_override
                   ELSE IF platform_env = NoneStr THEN "dev" ELSE platform_env
        looked == EnvironmentType_call(env_str)
        environment == IF looked.raised THEN "DEVELOPMENT" ELSE looked.value
    IN  [raised |-> FALSE,
         value |-> PipelineConfig(environment, EnvironmentType[environment],
                                  "250m", "1000m", "512Mi", "2Gi")]

\* Values of a Dict[str, Any]: a bool, an int, a str (the parts of an
\* f-string in order) or None.
PyBool(b) == [kind |-> "bool", b |-> b, n |-> 0, s |-> <<>>]
PyInt(n) == [kind |-> "int", b |-> FALSE, n |-> n, s |-> <<>>]
PyStr(s) == [kind |-> "str", b |-> FALSE, n |-> 0, s |-> s]
PyNone == [kind |-> "none", b |-> FALSE, n |-> 0, s |-> <<>>]

\* The environment-specific variables of get_dbt_vars_for_environment.
environment_vars(environment) ==
    IF environment = "PRODUCTION"
    THEN [enable_profiling |-> PyBool(FALSE), sample_size |-> PyNone,
          enable_data_quality_checks |-> PyBool(TRUE)]
    ELSE IF environment = "STAGING"
    THEN [enable_profiling |-> PyBool(TRUE), sample_size |-> PyInt(10000),
          enable_data_quality_checks |-> PyBool(TRUE)]
    ELSE [enable_profiling |-> PyBool(TRUE), sample_size |-> PyInt(1000),
          enable_data_quality_checks |-> PyBool(FALSE)]

\* get_dbt_vars_for_environment with the user's dbt_vars applied last.
get_dbt_vars_for_environment_mut(self) ==
    LET base_vars ==
          [environment |-> PyStr(<<EnvironmentType[self.environment]>>),
           warehouse_path |-> PyStr(<<self.warehouse_base_path, "/",
                                      EnvironmentType[self.environment]>>)]
    IN  [raised |-> FALSE,
         value |-> dict_update(dict_update(base_vars, environment_vars(self.environment)),
                               self.dbt_vars),
         self |-> self]

\* get_dbt_vars_for_environment: the returned dict, and the settings object
\* as the call leaves it (base_vars is a new dict).
get_dbt_vars_for_environment(self) ==
    LET base_vars ==
          dict_update([environment |-> PyStr(<<EnvironmentType[self.environment]>>),
                       warehouse_path |-> PyStr(<<self.warehouse_base_path, "/",
                                                  EnvironmentType[self.environment]>>)],
                      self.dbt_vars)
    IN  [raised |-> FALSE,
         value |-> dict_update(base_vars, environment_vars(self.environment)),
         self |-> self]

\* get_resource_requirements indexing the table (resource_configs[task_type])
\* instead of .get with a fallback: KeyError on an unknown tier.
get_resource_requirements_mut(self, task_type) ==
    LET resource_configs ==
          [default |-> [cpu_request |-> self.default_cpu_request,
                        cpu_limit |-> self.default_cpu_limit,
                        memory_request |-> self.default_memory_request,
                        memory_limit |-> self.default_memory_limit],
           heavy |-> [cpu_request |-> "500m", cpu_limit |-> "2000m",
                      memory_request |-> "1Gi", memory_limit |-> "4Gi"],
           light |-> [cpu_request |-> "100m", cpu_limit |-> "500m",
                      memory_request |-> "256Mi", memory_limit |-> "1Gi"]]
    IN  IF task_type \in DOMAIN resource_configs
        THEN [raised |-> FALSE, value |-> resource_configs[task_type]]
        ELSE [raised |-> TRUE, value |-> NoneStr]

get_resource_requirements(self, task_type) ==
    LET resource_configs ==
          [default |-> [cpu_request |-> self.default_cpu_request,
                        cpu_limit |-> self.default_cpu_limit,
                        memory_request |-> self.default_memory_request,
                        memory_limit |-> self.default_memory_limit],
           heavy |-> [cpu_request |-> "500m", cpu_limit |-> "2000m",
                      memory_request |-> "1Gi", memory_limit |-> "4Gi"],
           light |-> [cpu_request |-> "100m", cpu_limit |-> "500m",
                      memory_request |-> "256Mi", memory_limit |-> "1Gi"]]
    IN  [raised |-> FALSE,
         value |-> IF task_type \in DOMAIN resource_configs
                   THEN resource_configs[task_type]
                   ELSE resource_configs["default"]]

\* get_schedule_interval with .get(pipeline_type) and no fallback: None for an
\* unknown pipeline type.
get_schedule_interval_mut(self, pipeline_type) ==
    LET schedules ==
          [PRODUCTION |-> [default |-> "0 6 * * *", hourly |-> "0 * * * *",
                           critical |-> "*/30 * * * *"],
           STAGING |-> [default |-> "0 8 * * *", hourly |-> "0 */2 * * *",
                        critical |-> "0 */6 * * *"],
           DEVELOPMENT |-> [default |-> NoneStr, hourly |-> NoneStr, critical |-> NoneStr]]
    IN  [raised |-> FALSE,
         value |-> IF pipeline_type \in DOMAIN schedules[self.environment]
                   THEN schedules[self.environment][pipeline_type]
                   ELSE NoneStr]

get_schedule_interval(self, pipeline_type) ==
    LET schedules ==
          [PRODUCTION |-> [default |-> "0 6 * * *", hourly |-> "0 * * * *",
                           critical |-> "*/30 * * * *"],
           STAGING |-> [default |-> "0 8 * * *", hourly |-> "0 */2 * * *",
                        critical |-> "0 */6 * * *"],
           DEVELOPMENT |-> [default |-> NoneStr, hourly |-> NoneStr, critical |-> NoneStr]]
    IN  [raised |-> FALSE,
         value |-> IF pipeline_type \in DOMAIN schedules[self.environment]
                   THEN schedules[self.environment][pipeline_type]
                   ELSE schedules[self.environment]["default"]]

(***************************************************************************)
(* Inputs.                                                                 *)
(***************************************************************************)
EnvStrings == {"", "dev", "staging", "prod", "development", "production", "PROD", "qa"}

TaskTypes == {"default", "heavy", "light", "medium", "HEAVY", ""}

PipelineTypes == {"default", "hourly", "critical", "weekly", ""}

CpuRequests == {"250m", "300m"}
CpuLimits == {"1000m", "1500m"}
MemoryRequests == {"512Mi", "768Mi"}
MemoryLimits == {"2Gi", "3Gi"}

\* User-supplied dbt_vars: none, the keys of the environment bundle, other keys.
DbtVarsChoices ==
    {EmptyDict,
     [enable_profiling |-> PyBool(FALSE), sample_size |-> PyInt(5),
      enable_data_quality_checks |-> PyBool(TRUE)],
     [environment |-> PyStr(<<"custom">>), sample_size |-> PyNone,
      start_date |-> PyStr(<<"2024-01-01">>)]}

(***************************************************************************)
(* Operations on the settings object.                                      *)
(***************************************************************************)

\* settings = PipelineConfig.from_environment(env_override)
FromEnvironment ==
    \E env_override \in EnvStrings \cup {NoneStr}, platform_env \in EnvStrings \cup {NoneStr} :
       LET r == from_environment(env_override, platform_env)
       IN  /\ settings' = IF r.raised THEN settings ELSE r.value
           /\ ret' = [fn |-> "from_environment", env_override |-> env_override,
                      platform_env |-> platform_env, raised |-> r.raised]
           /\ UNCHANGED <<opVars, dagVars, shVars>>

\* settings = PipelineConfig(environment=..., default_cpu_request=..., ...)
PipelineConfigInit ==
    \E environment \in DOMAIN EnvironmentType, cpu_request \in CpuRequests,
       cpu_limit \in CpuLimits, memory_request \in MemoryRequests,
       memory_limit \in MemoryLimits, dbt_vars \in DbtVarsChoices :
       /\ settings' = [PipelineConfig(environment, "dev", cpu_request, cpu_limit,
                                      memory_request, memory_limit)
                          EXCEPT !.dbt_vars = dbt_vars]
       /\ ret' = [fn |-> "__init__", raised |-> FALSE]
       /\ UNCHANGED <<opVars, dagVars, shVars>>

\* settings.get_resource_requirements(task_type)
GetResourceRequirements ==
    \E task_type \in TaskTypes :
       LET r == get_resource_requirements(settings, task_type)
       IN  /\ ret' = [fn |-> "get_resource_requirements", task_type |-> task_type,
                      raised |-> r.raised, value |-> r.value]
           /\ UNCHANGED <<settings, opVars, dagVars, shVars>>

\* settings.get_dbt_vars_for_environment()
GetDbtVarsForEnvironment ==
    \E r \in {get_dbt_vars_for_environment(settings)} :
       /\ ret' = [fn |-> "get_dbt_vars_for_environment", raised |-> r.raised,
                  value |-> r.value]
       /\ settings' = r.self
       /\ UNCHANGED <<opVars, dagVars, shVars>>

\* settings.get_schedule_interval(pipeline_type)
GetScheduleInterval ==
    \E pipeline_type \in PipelineTypes :
       LET r == get_schedule_interval(settings, pipeline_type)
       IN  /\ ret' = [fn |-> "get_schedule_interval", pipeline_type |-> pipeline_type,
                      raised |-> r.raised, value |-> r.value]
           /\ UNCHANGED <<settings, opVars, dagVars, shVars>>

(***************************************************************************)
(* The pipeline DAG (dag/dbt_analytics_pipeline.py) and its runs under the *)
(* orchestrator: a task starts when all its upstream tasks succeeded       *)
(* (trigger rule all_success), a failed attempt is retried after           *)
(* retry_delay while attempts remain, one DAG run is active at a time.     *)
(***************************************************************************)

\* default_args['retries']
retries == 1

\* default_args['retry_delay'], in minutes
retry_delay == 5

\* The task ids in the order the DAG file creates the tasks.
TaskOrder ==
    <<"start_pipeline", "validate_dbt_connection", "install_dbt_deps", "seed_reference_data",
      "run_staging_models", "test_staging_models", "run_marts_models", "test_marts_models",
      "generate_documentation", "end_pipeline">>

TaskIds == {TaskOrder[i] : i \in 1..Len(TaskOrder)}

\* The two DummyOperator tasks; the others are DbtSparkOperator tasks.
DummyTasks == {"start_pipeline", "end_pipeline"}

DbtTasks == TaskIds \ DummyTasks

\* The DbtSpark*Operator tasks as the DAG file constructs them; the arguments
\* not passed keep the defaults of __init__.
DagTasks ==
    [validate_dbt_connection |->
        DbtSparkOperator(Chars["validate_dbt_connection"], Chars["debug"], None, None, None,
                         Chars["dev"], FALSE, 1, NoneInt),
     install_dbt_deps |->
        DbtSparkOperator(Chars["install_dbt_deps"], Chars["deps"], None, None, None,
                         Chars["dev"], FALSE, 1, NoneInt),
     seed_reference_data |->
        DbtSparkOperator(Chars["seed_reference_data"], Chars["seed"], None, None, None,
                         Chars["dev"], FALSE, 1, NoneInt),
     run_staging_models |->
        DbtSparkRunOperator(Chars["run_staging_models"], NoModels,
                            Chars["tag:"] \o Chars["staging"], None, None,
                            Chars["dev"], FALSE, 1, 2),
     test_staging_models |->
        DbtSparkOperator(Chars["test_staging_models"], Chars["test"],
                         Chars["tag:"] \o Chars["staging"], None, None,
                         Chars["dev"], FALSE, 1, NoneInt),
     run_marts_models |->
        DbtSparkRunOperator(Chars["run_marts_models"], NoModels,
                            Chars["tag:"] \o Chars["marts"], None, None,
                            Chars["dev"], FALSE, 1, 4),
     test_marts_models |->
        DbtSparkOperator(Chars["test_marts_models"], Chars["test"],
                         Chars["tag:"] \o Chars["marts"], None, None,
                         Chars["dev"], FALSE, 1, NoneInt),
     generate_documentation |->
        DbtSparkOperator(Chars["generate_documentation"], Chars["docs generate"], None, None,
                         None, Chars["dev"], FALSE, 1, NoneInt)]

\* The edge list with the edge test_staging_models >> run_marts_models left out.
Edges_mut ==
    {<<"start_pipeline", "validate_dbt_connection">>,
     <<"validate_dbt_connection", "install_dbt_deps">>,
     <<"install_dbt_deps", "seed_reference_data">>,
     <<"seed_reference_data", "run_staging_models">>,
     <<"run_staging_models", "test_staging_models">>,
     <<"run_marts_models", "test_marts_models">>,
     <<"test_marts_models", "generate_documentation">>,
     <<"generate_documentation", "end_pipeline">>}

\* The `>>` statements: <<upstream, downstream>>.
Edges ==
    {<<"start_pipeline", "validate_dbt_connection">>,
     <<"validate_dbt_connection", "install_dbt_deps">>,
     <<"install_dbt_deps", "seed_reference_data">>,
     <<"seed_reference_data", "run_staging_models">>,
     <<"run_staging_models", "test_staging_models">>,
     <<"test_staging_models", "run_marts_models">>,
     <<"run_marts_models", "test_marts_models">>,
     <<"test_marts_models", "generate_documentation">>,
     <<"generate_documentation", "end_pipeline">>}

Upstream(t) == {u \in TaskIds : <<u, t>> \in Edges}

\* max_active_runs
max_active_runs == 1

Terminal == {"success", "failed", "upstream_failed"}

RunFinished == \A t \in TaskIds : task_state[t] \in Terminal

\* An import of the DAG file that also builds a job specification while the
\* tasks are constructed.
DagFileImport_mut ==
    /\ dag_tasks = <<>>
    /\ dag_tasks' = DagTasks
    /\ dbt_cmd' = _build_dbt_command(DagTasks["validate_dbt_connection"], config)
    /\ profiles' = _create_profiles_yaml(DagTasks["validate_dbt_connection"], config)
    /\ UNCHANGED <<phase, config, op, env_vars, pod_name, init_args, cfgVars, shVars, task_state,
                   try_number, retry_wait, started, builds, dag_run, dag_ctx>>

\* The scheduler imports the DAG file: the task objects are constructed, all
\* sharing dbt_spark_config through default_args.
DagFileImport ==
    /\ dag_tasks = <<>>
    /\ dag_tasks' = DagTasks
    /\ UNCHANGED <<opVars, cfgVars, shVars, task_state, try_number, retry_wait, started, builds,
                   dag_run, dag_ctx>>

\* The scheduler creates the next DAG run; with max_active_runs = 1 only when
\* no run is active.
DagRunStart ==
    /\ dag_tasks # <<>>
    /\ dag_run < MaxDagRuns
    /\ (dag_run >= max_active_runs) => RunFinished
    /\ dag_run' = dag_run + 1
    /\ \E context \in Contexts : dag_ctx' = context
    /\ task_state' = [t \in TaskIds |-> "none"]
    /\ try_number' = [t \in TaskIds |-> 0]
    /\ retry_wait' = 0
    /\ started' = <<>>
    /\ builds' = [t \in TaskIds |-> 0]
    /\ dbt_cmd' = <<>>
    /\ env_vars' = <<>>
    /\ pod_name' = <<>>
    /\ profiles' = <<>>
    /\ UNCHANGED <<phase, config, op, init_args, dag_tasks, cfgVars, shVars>>

\* The scheduler starts a task all of whose upstream tasks succeeded: execute
\* is called.
TaskStart(t) ==
    /\ dag_run > 0
    /\ task_state[t] = "none"
    /\ \A u \in Upstream(t) : task_state[u] = "success"
    /\ task_state' = [task_state EXCEPT ![t] = "running"]
    /\ try_number' = [try_number EXCEPT ![t] = @ + 1]
    /\ started' = Append(started, t)
    /\ UNCHANGED <<opVars, cfgVars, shVars, dag_tasks, retry_wait, builds, dag_run, dag_ctx>>

\* A task with a failed upstream task is never started.
TaskUpstreamFailed(t) ==
    /\ dag_run > 0
    /\ task_state[t] = "none"
    /\ \E u \in Upstream(t) : task_state[u] \in {"failed", "upstream_failed"}
    /\ task_state' = [task_state EXCEPT ![t] = "upstream_failed"]
    /\ UNCHANGED <<opVars, cfgVars, shVars, dag_tasks, try_number, retry_wait, started, builds,
                   dag_run, dag_ctx>>

\* The attempt ends well: a DummyOperator has nothing to run, a dbt task's pod
\* completed.
TaskSucceed(t) ==
    /\ \/ t \in DummyTasks /\ task_state[t] = "running"
       \/ t \in DbtTasks /\ task_state[t] = "submitted"
    /\ task_state' = [task_state EXCEPT ![t] = "success"]
    /\ UNCHANGED <<opVars, cfgVars, shVars, dag_tasks, try_number, retry_wait, started, builds,
                   dag_run, dag_ctx>>

\* The pod of a dbt task fails: up for retry while attempts remain, else failed.
TaskFail(t) ==
    /\ t \in DbtTasks
    /\ task_state[t] = "submitted"
    /\ IF try_number[t] <= retries
       THEN /\ task_state' = [task_state EXCEPT ![t] = "up_for_retry"]
            /\ retry_wait' = retry_delay
       ELSE /\ task_state' = [task_state EXCEPT ![t] = "failed"]
            /\ UNCHANGED retry_wait
    /\ UNCHANGED <<opVars, cfgVars, shVars, dag_tasks, try_number, started, builds, dag_run,
                   dag_ctx>>

\* A minute of the retry delay passes.
RetryTick ==
    /\ \E t \in TaskIds : task_state[t] = "up_for_retry"
    /\ retry_wait > 0
    /\ retry_wait' = retry_wait - 1
    /\ UNCHANGED <<opVars, cfgVars, shVars, dag_tasks, task_state, try_number, started, builds,
                   dag_run, dag_ctx>>

\* The retry delay is over: the next attempt starts.
TaskRetry(t) ==
    /\ task_state[t] = "up_for_retry"
    /\ retry_wait = 0
    /\ task_state' = [task_state EXCEPT ![t] = "running"]
    /\ try_number' = [try_number EXCEPT ![t] = @ + 1]
    /\ UNCHANGED <<opVars, cfgVars, shVars, dag_tasks, retry_wait, started, builds, dag_run,
                   dag_ctx>>

\* execute runs in the worker: it builds the job specification of the task
\* from the task's fields, the shared config and the run's context, and
\* submits the pod.
TaskExecute(t) ==
    /\ t \in DbtTasks
    /\ task_state[t] = "running"
    /\ \E r \in {execute(dag_tasks[t], config, dag_ctx)} :
           /\ dbt_cmd' = r.dbt_cmd
           /\ profiles' = r.profiles
           /\ env_vars' = r.env_vars
           /\ pod_name' = r.pod_name
           /\ dag_tasks' = [dag_tasks EXCEPT ![t] = r.self]
           /\ config' = r.config
    /\ builds' = [builds EXCEPT ![t] = @ + 1]
    /\ task_state' = [task_state EXCEPT ![t] = "submitted"]
    /\ UNCHANGED <<phase, op, init_args, cfgVars, shVars, try_number, retry_wait, started,
                   dag_run, dag_ctx>>

(***************************************************************************)
(* The execution script running in the pod (bash).                         *)
(***************************************************************************)

\* The script of the pod launched last.
Script == execution_script(dbt_cmd, profiles)

ShRunning == sh_pc > 0 /\ sh_exit = -1

\* The script without its `set -e` line.
sets_errexit_mut(step) == FALSE

\* `set -e`: from this command on, a command that exits non-zero ends the
\* script with that status.
sets_errexit(step) == step.cmd = "set -e"

\* The exit statuses a command of the script can have.
ExitStatuses(step) == IF step.cmd = "set -e" THEN {0} ELSE {0, 1}

\* A poll that `timeout` never ends.
poll_expired_mut(elapsed) == FALSE

\* `timeout 30s`: the poll loop is killed once 30 seconds have passed.
poll_expired(elapsed) == elapsed >= PollTimeout

\* The command at sh_pc ended with `status`: bash goes on with the next
\* command, or exits (errexit and a non-zero status, or the end of the script).
ShAdvance(step, status) ==
    /\ sh_trace' = Append(sh_trace, [pc |-> sh_pc, status |-> status])
    /\ sh_errexit' = (sh_errexit \/ sets_errexit(step))
    /\ IF (status # 0 /\ sh_errexit) \/ sh_pc = Len(Script)
       THEN sh_exit' = status /\ sh_pc' = sh_pc
       ELSE sh_exit' = -1 /\ sh_pc' = sh_pc + 1

\* KubernetesPodOperator starts the pod of a task of the DAG with the script
\* that execute built.
PodLaunch ==
    /\ sh_pc = 0 \/ sh_exit # -1
    /\ \E t \in DbtTasks, context \in Contexts :
          \E r \in {execute(DagTasks[t], config, context)} :
              /\ dbt_cmd' = r.dbt_cmd
              /\ profiles' = r.profiles
              /\ env_vars' = r.env_vars
              /\ pod_name' = r.pod_name
              /\ config' = r.config
    /\ sh_pc' = 1
    /\ sh_errexit' = FALSE
    /\ sh_exit' = -1
    /\ sh_elapsed' = 0
    /\ sh_trace' = <<>>
    /\ UNCHANGED <<phase, op, init_args, cfgVars, dagVars>>

\* bash runs the command at sh_pc (any command but the connectivity poll).
ShCommand ==
    /\ ShRunning
    /\ Script[sh_pc].cmd # "timeout"
    /\ \E status \in ExitStatuses(Script[sh_pc]) : ShAdvance(Script[sh_pc], status)
    /\ UNCHANGED <<opVars, cfgVars, dagVars, sh_elapsed>>

\* The poll: `nc -z` connects, the while loop ends and `timeout` returns 0.
PollConnect ==
    /\ ShRunning
    /\ Script[sh_pc].cmd = "timeout"
    /\ ~poll_expired(sh_elapsed)
    /\ ShAdvance(Script[sh_pc], 0)
    /\ UNCHANGED <<opVars, cfgVars, dagVars, sh_elapsed>>

\* The poll: `nc -z` fails and the loop sleeps one second.
PollSleep ==
    /\ ShRunning
    /\ Script[sh_pc].cmd = "timeout"
    /\ ~poll_expired(sh_elapsed)
    /\ sh_elapsed < MaxElapsed
    /\ sh_elapsed' = sh_elapsed + 1
    /\ UNCHANGED <<opVars, cfgVars, dagVars, sh_pc, sh_errexit, sh_exit, sh_trace>>

\* The poll: `timeout` kills the loop and returns non-zero, so the right-hand
\* side of `||` runs: (echo ... && exit 1).
PollTimedOut ==
    /\ ShRunning
    /\ Script[sh_pc].cmd = "timeout"
    /\ poll_expired(sh_elapsed)
    /\ ShAdvance(Script[sh_pc], 1)
    /\ UNCHANGED <<opVars, cfgVars, dagVars, sh_elapsed>>

(***************************************************************************)
(* Specifications.                                                         *)
(***************************************************************************)

\* After the DAG file has built the shared dbt_spark_config and the settings
\* module has been imported; no task object yet.
Init ==
    /\ phase = "config"
    /\ config \in {DbtSparkConfig(e) : e \in ExtraEnvChoices}
    /\ op = NoTask
    /\ dbt_cmd = <<>>
    /\ env_vars = <<>>
    /\ pod_name = <<>>
    /\ settings = DefaultPipelineConfig
    /\ ret = [fn |-> "none", raised |-> FALSE]
    /\ profiles = <<>>
    /\ init_args = NoArgs
    /\ dag_tasks = <<>>
    /\ task_state = [t \in TaskIds |-> "none"]
    /\ try_number = [t \in TaskIds |-> 0]
    /\ retry_wait = 0
    /\ started = <<>>
    /\ builds = [t \in TaskIds |-> 0]
    /\ dag_run = 0
    /\ dag_ctx = NoContext
    /\ sh_pc = 0
    /\ sh_errexit = FALSE
    /\ sh_exit = -1
    /\ sh_elapsed = 0
    /\ sh_trace = <<>>

\* The job-specification builder.
Next == OperatorInit \/ BuildDbtCommand \/ PrepareEnvironment \/ Execute

Spec == Init /\ [][Next]_vars

\* A DbtSparkRunOperator task.
NextRun == RunOperatorInit \/ CreateProfilesYaml \/ Execute

SpecRun == Init /\ [][NextRun]_vars

\* The configuration resolver.
NextConfig ==
    \/ FromEnvironment
    \/ PipelineConfigInit
    \/ GetResourceRequirements
    \/ GetScheduleInterval
    \/ GetDbtVarsForEnvironment

SpecConfig == Init /\ [][NextConfig]_vars

\* The runs of the pipeline DAG.
NextDag ==
    \/ DagFileImport
    \/ DagRunStart
    \/ RetryTick
    \/ \E t \in TaskIds :
          \/ TaskStart(t)
          \/ TaskExecute(t)
          \/ TaskSucceed(t)
          \/ TaskFail(t)
          \/ TaskRetry(t)
          \/ TaskUpstreamFailed(t)

SpecDag == Init /\ [][NextDag]_vars

\* The pods of the tasks, each running the script built for it.
NextScript == PodLaunch \/ ShCommand \/ PollConnect \/ PollSleep \/ PollTimedOut

SpecScript == Init /\ [][NextScript]_vars

\* The clock advances: a sleeping poll wakes up and the timer of `timeout`
\* fires.
FairSpecScript == SpecScript /\ WF_vars(PollSleep \/ PollTimedOut)

(***************************************************************************)
(* Properties of the command list.                                         *)
(***************************************************************************)
Has(cmd, word) == \E i \in 1..Len(cmd) : cmd[i] = word

IndexOf(cmd, word) == CHOOSE i \in 1..Len(cmd) : cmd[i] = word

VarsCommands ==
    {Chars["run"], Chars["test"], Chars["compile"], Chars["seed"], Chars["snapshot"]}

FullRefreshCommands == {Chars["run"], Chars["seed"]}

ThreadsCommands ==
    {Chars["run"], Chars["test"], Chars["compile"], Chars["seed"], Chars["snapshot"]}

\* C1: for a subcommand that is not run, test, compile, seed or snapshot, the
\* command list built by _build_dbt_command has no '--vars' element, whatever
\* variables map was supplied.
C1_NoVarsOutsideAllowList ==
    (dbt_cmd # <<>> /\ op.command \notin VarsCommands) => ~Has(dbt_cmd, Chars["--vars"])

C1_Witness ==
    /\ dbt_cmd # <<>>
    /\ op.command = Chars["docs generate"]
    /\ Len(op.vars) = 2
    /\ pod_name = <<>>

\* C2: for a subcommand other than run and seed, the command list has no
\* '--full-refresh' element, even when full_refresh is true.
C2_NoFullRefreshOutsideAllowList ==
    (dbt_cmd # <<>> /\ op.command \notin FullRefreshCommands)
        => ~Has(dbt_cmd, Chars["--full-refresh"])

C2_Witness ==
    /\ dbt_cmd # <<>>
    /\ op.command = Chars["test"]
    /\ op.full_refresh

\* C3: the pod name built in execute contains no upper-case letter, no 'tag:'
\* substring and no space.
UpperCase == DOMAIN LowerOf

HasSubstring(s, sub) ==
    \E i \in 1..Len(s) : i + Len(sub) - 1 <= Len(s) /\ SubSeq(s, i, i + Len(sub) - 1) = sub

C3_PodNameSanitized ==
    pod_name # <<>> =>
        /\ \A i \in 1..Len(pod_name) : pod_name[i] \notin UpperCase
        /\ ~HasSubstring(pod_name, Chars["tag:"])
        /\ \A i \in 1..Len(pod_name) : pod_name[i] # " "

\* C4: in the environment map every key of the passthrough map carries the
\* passthrough value, also when the assembly set the key earlier; the other
\* keys keep the value assembled earlier.
C4_PassthroughWins ==
    env_vars # <<>> =>
        LET extra == config.extra_env_vars
            Kept(k, v) == k \notin DOMAIN extra => env_vars[k] = v
        IN  /\ \A k \in DOMAIN extra : k \in DOMAIN env_vars /\ env_vars[k] = extra[k]
            /\ Kept("DBT_TARGET", op.target)
            /\ Kept("DBT_COMMAND", op.command)
            /\ Kept("KYUUBI_HOST", config.spark_host)
            /\ Kept("K8S_NAMESPACE", config.namespace)
            /\ Kept("DBT_PROJECT_DIR", config.dbt_project_dir)
            /\ Kept("AIRFLOW_TASK_ID", op.task_id)

C4_Witness ==
    /\ env_vars # <<>>
    /\ "DBT_TARGET" \in DOMAIN config.extra_env_vars
    /\ config.extra_env_vars["DBT_TARGET"] # op.target
    /\ env_vars["DBT_TARGET"] = Chars["prod"]
    /\ env_vars["DBT_COMMAND"] = op.command

\* C8: the command list is ['dbt', subcommand, '--target', target,
\* '--profiles-dir', dir], then --select, --exclude, --vars, --full-refresh and
\* --threads with their values, each only if given or emitted, in this order
\* and with nothing else.
C8_CommandOrder ==
    dbt_cmd # <<>> =>
        LET c == dbt_cmd
            sel == IF Truthy(op.select) THEN 2 ELSE 0
            exc == IF Truthy(op.exclude) THEN 2 ELSE 0
            var == IF Has(c, Chars["--vars"]) THEN 2 ELSE 0
            ref == IF Has(c, Chars["--full-refresh"]) THEN 1 ELSE 0
            thr == IF Has(c, Chars["--threads"]) THEN 2 ELSE 0
        IN  /\ Len(c) = 6 + sel + exc + var + ref + thr
            /\ SubSeq(c, 1, 6) = <<Chars["dbt"], op.command, Chars["--target"], op.target,
                                   Chars["--profiles-dir"], Chars["/dbt/profiles"]>>
            /\ sel = 2 => c[7] = Chars["--select"] /\ c[8] = op.select
            /\ exc = 2 => c[7 + sel] = Chars["--exclude"] /\ c[8 + sel] = op.exclude
            /\ var = 2 => /\ c[7 + sel + exc] = Chars["--vars"]
                          /\ Head(c[8 + sel + exc]) = "{"
                          /\ c[8 + sel + exc][Len(c[8 + sel + exc])] = "}"
            /\ ref = 1 => c[7 + sel + exc + var] = Chars["--full-refresh"]
            /\ thr = 2 => c[7 + sel + exc + var + ref] = Chars["--threads"]
            /\ (/\ op.command = Chars["run"] /\ op.select = Chars["tag:"] \o Chars["staging"]
                /\ op.target = Chars["dev"] /\ op.threads = 1 /\ op.exclude = None
                /\ op.vars = <<>> /\ ~op.full_refresh)
               => c = <<Chars["dbt"], Chars["run"], Chars["--target"], Chars["dev"],
                        Chars["--profiles-dir"], Chars["/dbt/profiles"], Chars["--select"],
                        <<"t", "a", "g", ":", "s", "t", "a", "g", "i", "n", "g">>,
                        Chars["--threads"], <<"1">>>>
            /\ (/\ op.command = Chars["debug"] /\ op.target = Chars["dev"]
                /\ op.select = None /\ op.exclude = None)
               => c = <<Chars["dbt"], Chars["debug"], Chars["--target"], Chars["dev"],
                        Chars["--profiles-dir"], Chars["/dbt/profiles"]>>

C8_Witness ==
    /\ Len(dbt_cmd) = 15
    /\ op.command = Chars["seed"]
    /\ Truthy(op.select) /\ Truthy(op.exclude) /\ Len(op.vars) = 2 /\ op.full_refresh

\* C9: a subcommand outside the nine enumerated ones is rejected when the task
\* is constructed, so no task object, command list or pod name exists for it.
C9_UnknownSubcommandRejected ==
    phase = "task" => op.command \in KnownCommands

\* Value of a decimal numeral.
RECURSIVE DecimalValue(_)
DecimalValue(s) ==
    IF s = <<>> THEN 0
    ELSE 10 * DecimalValue(SubSeq(s, 1, Len(s) - 1))
         + (CHOOSE d \in 0..9 : Digits[d + 1] = s[Len(s)])

IsDecimal(s) ==
    /\ s # <<>>
    /\ \A i \in 1..Len(s) : \E d \in 0..9 : Digits[d + 1] = s[i]
    /\ Len(s) > 1 => s[1] # "0"

\* C10: the command list has '--threads' followed by the decimal thread count
\* if and only if the subcommand is run, test, compile, seed or snapshot,
\* whatever the thread count.
C10_ThreadsIffSupported ==
    dbt_cmd # <<>> =>
        /\ Has(dbt_cmd, Chars["--threads"]) <=> op.command \in ThreadsCommands
        /\ Has(dbt_cmd, Chars["--threads"]) =>
              LET i == IndexOf(dbt_cmd, Chars["--threads"])
              IN  /\ i < Len(dbt_cmd)
                  /\ IsDecimal(dbt_cmd[i + 1])
                  /\ DecimalValue(dbt_cmd[i + 1]) = op.threads

C10_Witness ==
    /\ dbt_cmd # <<>>
    /\ op.command = Chars["snapshot"]
    /\ op.threads = MaxThreads
    /\ Has(dbt_cmd, Chars["--threads"])

(***************************************************************************)
(* Properties of the settings object.                                      *)
(***************************************************************************)
TagValues == {"dev", "staging", "prod"}

\* C5: from_environment resolves every override string and every value of
\* DATA_PLATFORM_ENV to one of the three tags, a string that is no tag value
\* to development, and the resolution does not raise.
C5_TagResolutionTotal ==
    ret.fn = "from_environment" =>
        LET given == IF ret.env_override \notin {NoneStr, ""}
                     THEN ret.env_override ELSE ret.platform_env
        IN  /\ ~ret.raised
            /\ settings.environment \in {"DEVELOPMENT", "STAGING", "PRODUCTION"}
            /\ given \notin TagValues => settings.environment = "DEVELOPMENT"
            /\ given = "dev" => settings.environment = "DEVELOPMENT"
            /\ given = "staging" => settings.environment = "STAGING"
            /\ given = "prod" => settings.environment = "PRODUCTION"

C5_Witness ==
    /\ ret.fn = "from_environment"
    /\ ret.env_override = "production"
    /\ ret.platform_env = "staging"
    /\ settings.environment = "DEVELOPMENT"

\* C6: get_resource_requirements returns the tier's four values for default,
\* heavy and light, the values of the default tier for every other name, and
\* does not fail.
C6_ResourceTierTotal ==
    ret.fn = "get_resource_requirements" =>
        LET Four(a, b, c, d) ==
              [cpu_request |-> a, cpu_limit |-> b, memory_request |-> c, memory_limit |-> d]
            default == Four(settings.default_cpu_request, settings.default_cpu_limit,
                            settings.default_memory_request, settings.default_memory_limit)
        IN  /\ ~ret.raised
            /\ ret.task_type = "heavy" => ret.value = Four("500m", "2000m", "1Gi", "4Gi")
            /\ ret.task_type = "light" => ret.value = Four("100m", "500m", "256Mi", "1Gi")
            /\ ret.task_type \notin {"heavy", "light"} => ret.value = default

C6_Witness ==
    /\ ret.fn = "get_resource_requirements"
    /\ ret.task_type = "medium"
    /\ settings.default_cpu_request = "300m"
    /\ ret.value.cpu_request = "300m"

\* C7: get_schedule_interval returns '0 * * * *' for (production, 'hourly'),
\* no schedule for every pipeline type in development, and the environment's
\* 'default' entry for an unknown pipeline type.
C7_ScheduleLookup ==
    ret.fn = "get_schedule_interval" =>
        LET default == CASE settings.environment = "PRODUCTION" -> "0 6 * * *"
                         [] settings.environment = "STAGING" -> "0 8 * * *"
                         [] settings.environment = "DEVELOPMENT" -> NoneStr
        IN  /\ ~ret.raised
            /\ (settings.environment = "PRODUCTION" /\ ret.pipeline_type = "hourly")
                  => ret.value = "0 * * * *"
            /\ settings.environment = "DEVELOPMENT" => ret.value = NoneStr
            /\ ret.pipeline_type \notin {"default", "hourly", "critical"} => ret.value = default

C7_Witness ==
    /\ ret.fn = "get_schedule_interval"
    /\ settings.environment = "STAGING"
    /\ ret.pipeline_type = "weekly"
    /\ ret.value = "0 8 * * *"

(***************************************************************************)
(* Properties of the runs of the pipeline DAG.                             *)
(***************************************************************************)
IsPrefix(a, b) == Len(a) <= Len(b) /\ SubSeq(b, 1, Len(a)) = a

Successors(S) == {e[2] : e \in {f \in Edges : f[1] \in S}}

\* The tasks reachable from the set S in 1..n steps along the edges.
RECURSIVE ReachFrom(_, _)
ReachFrom(S, n) ==
    IF n = 0 THEN {} ELSE Successors(S) \cup ReachFrom(Successors(S), n - 1)

Acyclic == \A t \in TaskIds : t \notin ReachFrom({t}, Cardinality(TaskIds))

InProgress == {t \in TaskIds : task_state[t] \in {"running", "submitted", "up_for_retry"}}

\* C11: in every run of the pipeline DAG the tasks start in the single order
\* start_pipeline ... end_pipeline: the graph is acyclic, at most one task of
\* the run is in progress at a time, the run_* task of a layer has succeeded
\* when the layer's test_* task starts, and every started task has all its
\* upstream tasks successful (a task whose upstream failed never starts).
C11_TasksStartInOrder ==
    /\ Acyclic
    /\ IsPrefix(started, TaskOrder)
    /\ Cardinality(InProgress) <= 1
    /\ \A i \in 1..Len(started) : \A u \in Upstream(started[i]) : task_state[u] = "success"
    /\ \A i \in 1..Len(started) :
          /\ started[i] = "test_staging_models" => task_state["run_staging_models"] = "success"
          /\ started[i] = "test_marts_models" => task_state["run_marts_models"] = "success"
    /\ \A t \in TaskIds :
          (\E u \in Upstream(t) : task_state[u] \in {"failed", "upstream_failed"})
             => task_state[t] \in {"none", "upstream_failed"}

C11_Witness ==
    /\ dag_run = 2
    /\ started = TaskOrder
    /\ task_state["end_pipeline"] = "success"
    /\ try_number["run_marts_models"] = 2

\* C12: a task of the pipeline DAG that keeps failing is attempted exactly 3
\* times (1 initial attempt plus 2 retries) before it is marked failed.
C12_ThreeAttemptsBeforeFailed ==
    \A t \in TaskIds : task_state[t] = "failed" => try_number[t] = 3

(***************************************************************************)
(* Properties of the execution script.                                     *)
(***************************************************************************)
CompletionMarker == [cmd |-> "echo", arg |-> <<Chars["DBT execution completed successfully!"]>>]

\* The commands of the script in order, the progress messages left out.
ScriptSteps == SelectSeq(Script, LAMBDA st : st.cmd # "echo" \/ st = CompletionMarker)

\* The commands executed so far, in order.
Executed == [i \in 1..Len(sh_trace) |-> Script[sh_trace[i].pc]]

Ran(step_cmd) == \E i \in 1..Len(sh_trace) : Executed[i].cmd = step_cmd

RanOk(step_cmd) ==
    \E i \in 1..Len(sh_trace) : Executed[i].cmd = step_cmd /\ sh_trace[i].status = 0

MarkerEmitted == \E i \in 1..Len(sh_trace) : Executed[i] = CompletionMarker

\* C13: the script runs set -e, the write of the rendered profiles document,
\* the connectivity poll, cd, dbt --version, the assembled dbt command line
\* and the completion marker in this order; the dbt command starts only after
\* the document was written and the poll succeeded, a command that exits
\* non-zero is the last one executed and its status is the script's, and the
\* completion marker is emitted only after the dbt command exited zero.
C13_ScriptOrderFailFast ==
    sh_pc > 0 =>
        /\ [i \in 1..Len(ScriptSteps) |-> ScriptSteps[i].cmd]
              = <<"set -e", "mkdir -p", "cat >", "timeout", "cd", "dbt --version", "dbt", "echo">>
        /\ ScriptSteps[3].arg = profiles
        /\ ScriptSteps[7].arg = <<join(<<" ">>, dbt_cmd)>>
        /\ \A i \in 1..Len(sh_trace) : sh_trace[i].pc = i
        /\ Ran("dbt") => RanOk("cat >") /\ RanOk("timeout")
        /\ \A i \in 1..Len(sh_trace) :
              sh_trace[i].status # 0 => i = Len(sh_trace) /\ sh_exit = sh_trace[i].status
        /\ MarkerEmitted => RanOk("dbt")
        /\ sh_exit = 0 => Len(sh_trace) = Len(Script) /\ MarkerEmitted

C13_Witness ==
    /\ sh_exit = 0
    /\ MarkerEmitted
    /\ Len(dbt_cmd) > 8
    /\ sh_elapsed = 3

AtPoll == ShRunning /\ Script[sh_pc].cmd = "timeout"

PollStatus(status) ==
    \E i \in 1..Len(sh_trace) : Executed[i].cmd = "timeout" /\ sh_trace[i].status = status

\* C14: the connectivity poll waits at most 30 seconds.  When no connection
\* is accepted in that time the script exits non-zero and neither the dbt
\* command nor the completion marker is executed; when a connection is
\* accepted earlier the script goes on with the next command.  A poll in
\* progress always comes to an end.
C14_PollBounded ==
    /\ [](sh_elapsed <= PollTimeout)
    /\ [](PollStatus(1)
             => /\ sh_elapsed = PollTimeout
                /\ sh_exit = 1
                /\ ~Ran("dbt")
                /\ ~MarkerEmitted)
    /\ [](\A i \in 1..Len(sh_trace) :
             (Executed[i].cmd = "timeout" /\ sh_trace[i].status = 0)
                => sh_elapsed < PollTimeout /\ sh_pc > i)
    /\ (AtPoll ~> ~AtPoll)

C14_Witness ==
    /\ PollStatus(1)
    /\ sh_exit = 1
    /\ sh_elapsed = PollTimeout
    /\ Len(sh_trace) = 18

(***************************************************************************)
(* Properties of the rendered profiles.yml.                                *)
(***************************************************************************)
HasLine(doc, line) == \E i \in 1..Len(doc) : doc[i] = line

Quoted(s) == <<"\"">> \o s \o <<"\"">>

\* An entry of the spark_config block.
ConfLine(key, value) == Chars["        "] \o Quoted(key) \o Chars[": "] \o value

ExecutorInstancesKey == SubSeq(Chars["spark.executor.instances: \""], 1, 24)

HasExecutorEntry == \E i \in 1..Len(profiles) : HasSubstring(profiles[i], ExecutorInstancesKey)

\* C15: the rendered profiles document has a spark.executor.instances entry
\* if and only if the invocation carries an executor-count hint, and then its
\* value is the hint; the pod-naming and app-naming entries, connect_retries
\* 5, connect_timeout 60 and the config's session timeout are present for
\* every invocation, and the target is both the default target and the
\* single output key.
C15_ExecutorEntryIffHint ==
    profiles # <<>> =>
        /\ HasExecutorEntry <=> op.num_executors # NoneInt
        /\ op.num_executors # NoneInt
              => HasLine(profiles, ConfLine(ExecutorInstancesKey, Quoted(str(op.num_executors))))
        /\ \E i \in 1..Len(profiles) : HasSubstring(profiles[i], SubSeq(Chars["spark.kubernetes.executor.podNamePrefix: \"dbt-spark-{{dag_id}}\""], 1, 39))
        /\ \E i \in 1..Len(profiles) : HasSubstring(profiles[i], SubSeq(Chars["spark.app.name: \"${{dag_id}}-${{task_id}}\""], 1, 14))
        /\ HasLine(profiles, Chars["      connect_retries: 5"])
        /\ HasLine(profiles, Chars["      connect_timeout: 60"])
        /\ HasLine(profiles, Chars["      session_timeout: "] \o str(config.kyuubi_session_timeout))
        /\ profiles[3] = Chars["  target: "] \o op.target
        /\ profiles[5] = Chars["    "] \o op.target \o <<":">>
        /\ Cardinality({i \in 1..Len(profiles) :
                          /\ Len(profiles[i]) > 5
                          /\ SubSeq(profiles[i], 1, 4) = Chars["    "]
                          /\ profiles[i][5] \notin {" ", "#"}}) = 1

(***************************************************************************)
(* Properties of DbtSparkRunOperator.                                      *)
(***************************************************************************)
PodNameFor(name) == \E context \in Contexts :
                        pod_name = Chars["dbt"] \o <<"-">> \o name \o <<"-">> \o lower(context.ts_nodash)

\* The selection a DbtSparkRunOperator is to end up with.
ResultingSelect ==
    IF ModelsTruthy(init_args.models)
    THEN IF init_args.models.kind = "list"
         THEN join(<<" ">>, init_args.models.list)
         ELSE init_args.models.str
    ELSE init_args.select

\* C20 as stated: the subcommand is 'run', a non-empty models value replaces
\* the select and otherwise the passed select is kept, and the pod name is
\* 'dbt-unknown-<timestamp>' exactly when the resulting select is absent or
\* empty.
C20_UnknownExactlyWhenNoSelect ==
    (init_args # NoArgs /\ pod_name # <<>>) =>
        /\ op.command = Chars["run"]
        /\ op.select = ResultingSelect
        /\ PodNameFor(Chars["unknown"]) <=> ~Truthy(op.select)

\* C20 (amended): the subcommand is 'run', a non-empty models value replaces
\* the select (a list joined with single spaces, a string as is) and
\* otherwise the passed select is kept; the pod name is
\* 'dbt-unknown-<timestamp>' when the resulting select is absent or empty,
\* and otherwise 'dbt-<name>-<timestamp>' where <name> is the select with
\* 'tag:' removed and every space replaced by '-' (so a select of 'unknown'
\* gives 'dbt-unknown-<timestamp>' too).
C20_RunOperatorSelectAndPodName ==
    (init_args # NoArgs /\ pod_name # <<>>) =>
        /\ op.command = Chars["run"]
        /\ op.select = ResultingSelect
        /\ ~Truthy(op.select) => PodNameFor(Chars["unknown"])
        /\ Truthy(op.select) =>
              \E name \in {replace(replace(op.select, Chars["tag:"], <<>>), <<" ">>, <<"-">>)} :
                 /\ PodNameFor(name)
                 /\ \A i \in 1..Len(name) : name[i] # " "
                 /\ ~HasSubstring(op.select, Chars["tag:"]) =>
                       /\ Len(name) = Len(op.select)
                       /\ \A i \in 1..Len(name) :
                             name[i] = IF op.select[i] = " " THEN "-" ELSE op.select[i]

C20_Witness ==
    /\ init_args.models = ListModels(<<Chars["orders"], Chars["customers"]>>)
    /\ init_args.select = Chars["tag:"] \o Chars["staging"]
    /\ pod_name = Chars["dbt"] \o <<"-">> \o Chars["orders"] \o <<"-">> \o Chars["customers"]
                    \o <<"-">> \o lower(Chars["20240101T000000"])

(***************************************************************************)
(* Properties of the environment bundle of dbt variables.                  *)
(***************************************************************************)
Bundle(value, profiling, sample, quality) ==
    /\ value["enable_profiling"] = profiling
    /\ value["sample_size"] = sample
    /\ value["enable_data_quality_checks"] = quality

SampleSizeIn(environment) ==
    get_dbt_vars_for_environment([settings EXCEPT !.environment = environment]).value["sample_size"]

\* C16: for every settings object, also one whose dbt_vars define the same
\* keys, get_dbt_vars_for_environment returns enable_profiling false,
\* sample_size None and enable_data_quality_checks true in production; true,
\* 10000 and true in staging; true, 1000 and false in development; the
\* development sample size is smaller than the staging one; and the call
\* leaves the settings object, its dbt_vars included, unchanged.
C16_EnvironmentBundle ==
    [][ret'.fn = "get_dbt_vars_for_environment" =>
          /\ settings' = settings
          /\ settings.environment = "PRODUCTION"
                => Bundle(ret'.value, PyBool(FALSE), PyNone, PyBool(TRUE))
          /\ settings.environment = "STAGING"
                => Bundle(ret'.value, PyBool(TRUE), PyInt(10000), PyBool(TRUE))
          /\ settings.environment = "DEVELOPMENT"
                => Bundle(ret'.value, PyBool(TRUE), PyInt(1000), PyBool(FALSE))
          /\ SampleSizeIn("DEVELOPMENT").kind = "int"
          /\ SampleSizeIn("STAGING").kind = "int"
          /\ SampleSizeIn("DEVELOPMENT").n < SampleSizeIn("STAGING").n
          /\ \A k \in DOMAIN settings.dbt_vars :
                k \notin {"enable_profiling", "sample_size", "enable_data_quality_checks"}
                   => ret'.value[k] = settings.dbt_vars[k]]_vars

C16_Witness ==
    /\ ret.fn = "get_dbt_vars_for_environment"
    /\ settings.environment = "STAGING"
    /\ "sample_size" \in DOMAIN settings.dbt_vars
    /\ settings.dbt_vars["sample_size"] = PyInt(5)
    /\ ret.value["sample_size"] = PyInt(10000)

(***************************************************************************)
(* Properties of the tasks of the DAG sharing one DbtSparkConfig.          *)
(***************************************************************************)

\* C17: the DbtSparkConfig shared by the tasks is never mutated and the
\* tasks' own fields are never changed: every step of a run, the execute
\* calls (which call _build_dbt_command, _create_profiles_yaml and
\* _prepare_environment) included, leaves every field of the config, its
\* extra_env_vars included, and every constructed task as it was.
C17_SharedConfigNeverMutated ==
    [][/\ config' = config
       /\ dag_tasks # <<>> => dag_tasks' = dag_tasks]_vars

C17_Witness ==
    /\ config.extra_env_vars # EmptyDict
    /\ builds["run_staging_models"] = 2
    /\ builds["test_staging_models"] = 1
    /\ env_vars # <<>>
    /\ env_vars["DBT_TARGET"] = Chars["prod"]
    /\ dag_tasks = DagTasks

\* C18 as stated: the job specification of a task is built at
\* graph-construction time: when the execute step of a task starts, the
\* task's command list, profiles document, environment and pod name exist.
C18_BuiltAtGraphConstruction ==
    \A t \in DbtTasks :
        task_state[t] = "running" =>
            /\ dbt_cmd = _build_dbt_command(dag_tasks[t], config)
            /\ profiles = _create_profiles_yaml(dag_tasks[t], config)
            /\ env_vars # <<>>
            /\ pod_name # <<>>

\* C18 (amended): graph construction only stores the fields of each task; no
\* job specification exists before the first execute.  The specification is
\* built inside execute, once per attempt of the task, from the task's
\* stored fields, the shared config and the context of the run, whose
\* timestamp is part of the pod name.
C18_BuiltInExecute ==
    /\ (\A t \in TaskIds : builds[t] = 0) =>
          dbt_cmd = <<>> /\ profiles = <<>> /\ env_vars = <<>> /\ pod_name = <<>>
    /\ \A t \in DbtTasks :
          /\ builds[t] = try_number[t] - (IF task_state[t] = "running" THEN 1 ELSE 0)
          /\ task_state[t] = "submitted" =>
                /\ dbt_cmd = _build_dbt_command(dag_tasks[t], config)
                /\ profiles = _create_profiles_yaml(dag_tasks[t], config)
                /\ env_vars["AIRFLOW_RUN_ID"] = dag_ctx.run_id
                /\ Len(pod_name) > Len(dag_ctx.ts_nodash)
                /\ SubSeq(pod_name, Len(pod_name) - Len(dag_ctx.ts_nodash) + 1, Len(pod_name))
                      = lower(dag_ctx.ts_nodash)

C18_Witness ==
    /\ dag_run = 2
    /\ task_state["run_marts_models"] = "submitted"
    /\ try_number["run_marts_models"] = 2
    /\ builds["run_marts_models"] = 2
    /\ pod_name = Chars["dbt"] \o <<"-">> \o Chars["marts"] \o <<"-">> \o lower(dag_ctx.ts_nodash)

(***************************************************************************)
(* Properties of the environment map.                                      *)
(***************************************************************************)
NotPassedThrough(k) == k \notin DOMAIN config.extra_env_vars

\* The words that follow `flag` in the command list.
Following(cmd, flag) == {cmd[i + 1] : i \in {j \in 1..(Len(cmd) - 1) : cmd[j] = flag}}

\* C19: for every key the passthrough map does not define, the environment
\* map restates the invocation: DBT_COMMAND is the subcommand, DBT_SELECT and
\* DBT_EXCLUDE are the select and exclude expressions ('' when absent),
\* DBT_FULL_REFRESH is 'true' or 'false' as requested and DBT_THREADS is the
\* decimal thread count; in the job built by execute DBT_TARGET is the word
\* that follows '--target' in the command list, and DBT_THREADS the word
\* that follows '--threads' whenever that flag is emitted.
C19_EnvironmentRestatesInvocation ==
    env_vars # <<>> =>
        /\ NotPassedThrough("DBT_COMMAND") => env_vars["DBT_COMMAND"] = op.command
        /\ NotPassedThrough("DBT_SELECT") =>
              env_vars["DBT_SELECT"] = IF op.select \in {None, <<>>} THEN <<>> ELSE op.select
        /\ NotPassedThrough("DBT_EXCLUDE") =>
              env_vars["DBT_EXCLUDE"] = IF op.exclude \in {None, <<>>} THEN <<>> ELSE op.exclude
        /\ NotPassedThrough("DBT_FULL_REFRESH") =>
              env_vars["DBT_FULL_REFRESH"] = IF op.full_refresh THEN Chars["true"] ELSE Chars["false"]
        /\ NotPassedThrough("DBT_THREADS") =>
              /\ IsDecimal(env_vars["DBT_THREADS"])
              /\ DecimalValue(env_vars["DBT_THREADS"]) = op.threads
        /\ NotPassedThrough("DBT_TARGET") => env_vars["DBT_TARGET"] = op.target
        /\ dbt_cmd # <<>> =>
              /\ NotPassedThrough("DBT_TARGET") =>
                    Following(dbt_cmd, Chars["--target"]) = {env_vars["DBT_TARGET"]}
              /\ NotPassedThrough("DBT_THREADS") =>
                    Following(dbt_cmd, Chars["--threads"]) \subseteq {env_vars["DBT_THREADS"]}

C19_Witness ==
    /\ env_vars # <<>>
    /\ dbt_cmd # <<>>
    /\ config.extra_env_vars = EmptyDict
    /\ op.command = Chars["seed"]
    /\ op.full_refresh
    /\ op.select = None
    /\ op.threads = MaxThreads
    /\ env_vars["DBT_THREADS"] = <<"1", "2">>
    /\ Following(dbt_cmd, Chars["--threads"]) = {<<"1", "2">>}
    /\ env_vars["DBT_FULL_REFRESH"] = Chars["true"]
====
